---- MODULE Spec2Model ----
(***************************************************************************)
(* Model of whisper-to-input-desktop (src/src/main.rs): the recording /    *)
(* transcription state machine, its background worker, the retry loop of   *)
(* send_to_whisper and the hand-off of the result to the event loop.       *)
(*                                                                         *)
(* Threads and processes of the model:                                     *)
(*   - the interactive (event loop) thread, position uiPc; it runs one     *)
(*     handler at a time (record press, refine press, posted callback);    *)
(*   - background worker threads, one record per thread in `workers`;      *)
(*   - arecord capture processes, counted per phase in `procs`.            *)
(* Texts are sequences of string tokens, so that starts_with and contains  *)
(* are computed on them.                                                   *)
(***************************************************************************)
EXTENDS Integers, Sequences, FiniteSets, TLC

\* ------------------------------------------------------------------ bounds
MaxWorkers == 2      \* thread slots the model provides
MaxProcs == 2        \* capture processes alive at once in the model
MaxCycles == 2       \* recordings started in one run of the model
MaxCopies == 2       \* clipboard hand-offs counted since the last worker start

\* ------------------------------------------------------- program constants
MinFileSize == 4096
MaxFileSize == 25 * 1024 * 1024
MaxAttempts == 3

\* sizes the artifact takes in the model: both sides of each threshold
Sizes == {MinFileSize - 1, MinFileSize, MaxFileSize, MaxFileSize + 1}

\* the file as arecord has just created it: a header and little else
NewFileSize == MinFileSize - 1

Absent == -1         \* the artifact path does not exist

\* HTTP status codes the endpoint answers with in the model
Statuses == {200, 400, 401, 429, 500}

is_success(s) == s >= 200 /\ s <= 299
is_client_error(s) == s >= 400 /\ s <= 499

BAD_REQUEST == 400
UNAUTHORIZED == 401

\* bodies of a successful response
SuccessBodies == { <<"hello world">>, <<"hello world", "\n">>, << >> }
\* bodies of an error response
ErrorBodies == { <<"Invalid file format">>, <<"service says no">> }

\* str::contains / str::starts_with on token sequences
contains(text, tok) == \E i \in 1..Len(text) : text[i] = tok
starts_with(text, tok) == Len(text) > 0 /\ text[1] = tok

\* --------------------------------------------------------------- messages
MsgNotFound == <<"Error:", "Recorded file /tmp/whisper_record.wav not found!">>
MsgTooSmall(size) ==
    <<"Error:", "Recorded file too small (", ToString(size),
      " bytes). Likely empty or recording failed.">>
MsgTooLarge(size) ==
    <<"Error:", "Audio file too large (", ToString(size),
      " bytes). Maximum is 25 MB.">>
MsgMetadata == <<"Error accessing recorded file metadata: ", "io error">>
MsgBuildClient == <<"Failed to build HTTP client: ", "builder error">>
MsgAttach == <<"Failed to attach file '", "/tmp/whisper_record.wav", "': ", "io error">>
MsgReadBody == <<"Failed to read successful response body: ", "decode error">>
MsgUnknown == <<"Unknown error during API call">>
MsgApiError(status, body) == <<"API error ", ToString(status), ": ">> \o body
MsgApiUnreadable(status) == <<"API error ", ToString(status), " with unreadable body">>
MsgInvalidFormat(last) ==
    <<"API Error: Invalid audio file format. Ensure it's a valid WAV file. (">>
        \o last \o <<")">>
MsgUnauthorized(last) ==
    <<"API Error: Unauthorized (401). Check your API key. (">> \o last \o <<")">>
MsgNetwork == <<"Network request error: ", "connect error">>
MsgTimeout == <<"Request timed out: ", "timeout">>
MsgExhausted(last) == <<"Failed after multiple attempts. Last error: ">> \o last

Ok(text) == [ok |-> TRUE, text |-> text]
Err(text) == [ok |-> FALSE, text |-> text]
NoResult == [ok |-> FALSE, text |-> <<"none">>]

\* ------------------------------------------------------------------ state
VARIABLES
    state,            \* Arc<Mutex<State>>: "Stopped", "Recording", "Processing"
    lock,             \* holder of the mutex: "free", "ui", or a worker slot
    uiPc,             \* position of the interactive thread
    status_text,      \* MainWindow.status_text
    transcript_text,  \* MainWindow.transcript_text
    processing,       \* MainWindow.processing (spinner)
    show_refine_button, \* MainWindow.show_refine_button
    api_key_empty,    \* api_key.is_empty()
    procs,            \* arecord processes per phase
    artifact,         \* size of /tmp/whisper_record.wav, or Absent
    workers,          \* background threads
    queue,            \* closures posted with invoke_from_event_loop
    clipboard,        \* text last handed to copy_to_clipboard
    copies,           \* copy_to_clipboard calls since the last worker start
    refined,          \* the refine tool has been invoked since the last worker start
    started,          \* workers started so far
    finished,         \* completion callbacks run so far
    leaked,           \* a stop has left a capture process alive (pkill absent or failing)
    script            \* the outcomes a scripted endpoint answers with, in order

vars == <<state, lock, uiPc, status_text, transcript_text, processing,
          show_refine_button, api_key_empty, procs, artifact, workers, queue,
          clipboard, copies, refined, started, finished, leaked, script>>

uiVars == <<status_text, transcript_text, processing>>
envVars == <<procs, artifact>>
threadVars == <<workers, queue>>
sinkVars == <<clipboard, copies, refined>>
countVars == <<started, finished, leaked>>
configVars == <<show_refine_button, api_key_empty, script>>

Slots == 1..MaxWorkers

\* a thread slot that holds no thread
NoWorker == [pc |-> "none", attempts |-> 0, last_error |-> << >>,
             requests |-> 0, sleeps |-> 0, removed |-> FALSE,
             result |-> NoResult]

NoText == <<"(nothing copied)">>

\* no scripted endpoint: every outcome is chosen when it happens
NoScript == [built |-> TRUE, outcomes |-> << >>]

NumProcs == procs.new + procs.open + procs.orphan
NumWorkers == Cardinality({w \in Slots : workers[w].pc # "none"})

\* main(): MainWindow::new, the API key read, the probe for 'ask', the state
Init ==
    /\ state = "Stopped"
    /\ lock = "free"
    /\ uiPc = "idle"
    /\ api_key_empty \in BOOLEAN
    /\ status_text = IF api_key_empty
                       THEN <<"Error:", " API key missing or invalid">>
                       ELSE <<"Idle">>
    /\ transcript_text = << >>
    /\ processing = FALSE
    /\ show_refine_button \in BOOLEAN
    /\ procs = [new |-> 0, open |-> 0, orphan |-> 0]
    /\ artifact = Absent
    /\ workers = [w \in Slots |-> NoWorker]
    /\ queue = << >>
    /\ clipboard = NoText
    /\ copies = 0
    /\ refined = FALSE
    /\ started = 0
    /\ finished = 0
    /\ leaked = FALSE
    /\ script = NoScript


\* --------------------------------------------------- capture processes
\* arecord, once spawned, opens its output file: the path then names a new
\* file, and a process that wrote to the old file keeps its unlinked one
CaptureOpens ==
    /\ procs.new > 0
    /\ procs' = [new |-> procs.new - 1, open |-> 1,
                 orphan |-> procs.orphan + procs.open]
    /\ artifact' = NewFileSize
    /\ UNCHANGED <<state, lock, uiPc, uiVars, configVars, threadVars,
                   sinkVars, countVars>>

\* a process whose file is still at the path appends audio data to it
CaptureWrites ==
    /\ procs.open > 0
    /\ artifact # Absent
    /\ \E s \in Sizes : s > artifact /\ artifact' = s
    /\ UNCHANGED <<state, lock, uiPc, uiVars, configVars, threadVars,
                   sinkVars, countVars, procs>>

\* a capture process ends by itself (device error, stopped manually)
CaptureExits ==
    /\ \E ph \in {"new", "open", "orphan"} :
          /\ procs[ph] > 0
          /\ procs' = [procs EXCEPT ![ph] = @ - 1]
    /\ UNCHANGED <<state, lock, uiPc, uiVars, configVars, threadVars,
                   sinkVars, countVars, artifact>>

\* ------------------------------------------- interactive thread: record
\* `if api_key_clone.is_empty()` (main.rs 406)
KeyCheckSkipped(empty) == FALSE

KeyMissing(empty) == empty

\* on_record_pressed closure with an empty API key (main.rs 406-412)
RecordPressedNoKey ==
    /\ uiPc = "idle"
    /\ KeyMissing(api_key_empty)
    /\ status_text' = <<"Error:", " API key missing. Cannot record.">>
    /\ UNCHANGED <<state, lock, uiPc, transcript_text, processing, configVars,
                   envVars, threadVars, sinkVars, countVars>>

\* on_record_pressed closure calling handle_record_button_press, up to the
\* acquisition of the mutex (main.rs 413-418, 68-74)
RecordPressed ==
    /\ uiPc = "idle"
    /\ ~KeyMissing(api_key_empty)
    /\ lock = "free"
    /\ ~(state = "Stopped" /\ (started >= MaxCycles \/ NumProcs >= MaxProcs))
    /\ lock' = "ui"
    /\ uiPc' = "match"
    /\ UNCHANGED <<state, uiVars, configVars, envVars, threadVars, sinkVars,
                   countVars>>

ArmProcessingAsRecording(current_state) ==
    IF current_state = "Processing" THEN "Recording" ELSE current_state

\* the arm of `match *current_state_guard` that is taken (main.rs 76-77, 111, 211)
Arm(current_state) == current_state

\* State::Stopped arm, first part (main.rs 77-81)
StartRecording ==
    /\ uiPc = "match"
    /\ Arm(state) = "Stopped"
    /\ state' = "Recording"
    /\ status_text' = <<"Recording...">>
    /\ processing' = FALSE
    /\ uiPc' = "spawn_capture"
    /\ UNCHANGED <<lock, transcript_text, configVars, envVars, threadVars,
                   sinkVars, countVars>>

StateAfterSpawnNoRevert(outcome) ==
    IF outcome = "missing" THEN "Stopped" ELSE "Recording"

\* the state after the attempt to start arecord (main.rs 86, 103, 107)
StateAfterSpawn(outcome) == IF outcome = "ok" THEN "Recording" ELSE "Stopped"

\* State::Stopped arm, second part: which("arecord") and the spawn
\* (main.rs 83-110)
SpawnCapture ==
    /\ uiPc = "spawn_capture"
    /\ \E outcome \in {"missing", "spawn_err", "ok"} :
          CASE outcome = "missing" ->
                  /\ status_text' = <<"Error:", " arecord missing">>
                  /\ state' = StateAfterSpawn(outcome)
                  /\ procs' = procs
            [] outcome = "spawn_err" ->
                  /\ status_text' = <<"Error starting record: ", "spawn error">>
                  /\ state' = StateAfterSpawn(outcome)
                  /\ procs' = procs
            [] outcome = "ok" ->
                  /\ status_text' = status_text
                  /\ state' = StateAfterSpawn(outcome)
                  /\ procs' = [procs EXCEPT !.new = @ + 1]
    /\ lock' = "free"
    /\ uiPc' = "idle"
    /\ UNCHANGED <<transcript_text, processing, configVars, artifact,
                   threadVars, sinkVars, countVars>>

\* State::Recording arm, first part: pkill arecord, best effort (main.rs 111-123)
\*   "absent": which("pkill") fails; "failed": pkill could not be run or
\*   signalled nothing; "ok": every arecord process is terminated
TerminatedOpenOnly(running) == [running EXCEPT !.open = 0]

\* `pkill arecord` signals every arecord process (main.rs 115)
Terminated(running) == [new |-> 0, open |-> 0, orphan |-> 0]

StopCapture ==
    /\ uiPc = "match"
    /\ Arm(state) = "Recording"
    /\ \E outcome \in {"absent", "failed", "ok"} :
          /\ procs' = IF outcome = "ok" THEN Terminated(procs) ELSE procs
          /\ leaked' = (leaked \/ (outcome # "ok" /\ NumProcs > 0))
    /\ uiPc' = "grace"
    /\ UNCHANGED <<state, lock, uiVars, configVars, artifact, threadVars,
                   sinkVars, started, finished>>

\* the state written before the worker is started (main.rs 126)
StateAfterStop == "Processing"

\* drop(current_state_guard) before the thread is spawned (main.rs 131)
LockKeptPastSpawn == "ui"

LockAfterDrop == "free"

\* State::Recording arm, second part: the state write and the drop of the
\* guard (main.rs 125-131)
BeginProcessing ==
    /\ uiPc = "grace"
    /\ state' = StateAfterStop
    /\ status_text' = <<"Processing...">>
    /\ processing' = TRUE
    /\ lock' = LockAfterDrop
    /\ uiPc' = "spawn_thread"
    /\ UNCHANGED <<transcript_text, configVars, envVars, threadVars, sinkVars,
                   countVars>>

\* a thread as thread::spawn starts it (main.rs 137-140)
NewWorker == [NoWorker EXCEPT !.pc = "exists"]

\* State::Recording arm, third part: thread::spawn (main.rs 135-137)
SpawnWorker ==
    /\ uiPc = "spawn_thread"
    /\ \E w \in Slots :
          /\ workers[w].pc = "none"
          /\ \A v \in Slots : v < w => workers[v].pc # "none"
          /\ workers' = [workers EXCEPT ![w] = NewWorker]
    /\ started' = started + 1
    /\ copies' = 0
    /\ refined' = FALSE
    /\ uiPc' = "idle"
    /\ UNCHANGED <<state, lock, uiVars, configVars, envVars, queue, clipboard,
                   finished, leaked>>

ProcessingArmCancels == "Stopped"

\* what the Processing arm does to the state (main.rs 211-214)
ProcessingArmState == "Processing"

\* State::Processing arm (main.rs 211-214): nothing but the drop of the guard
IgnorePress ==
    /\ uiPc = "match"
    /\ Arm(state) = "Processing"
    /\ state' = ProcessingArmState
    /\ lock' = "free"
    /\ uiPc' = "idle"
    /\ UNCHANGED <<uiVars, configVars, envVars, threadVars, sinkVars,
                   countVars>>


\* ------------------------------------------------------ background worker
SetWorker(w, rec) == workers' = [workers EXCEPT ![w] = rec]

\* the worker has its result: it goes on to the cleanup (main.rs 172-173)
Finish(wk, res) == [wk EXCEPT !.result = res, !.pc = "cleanup"]

\* std::path::Path::exists (main.rs 143-146)
WCheckExists(w) ==
    /\ workers[w].pc = "exists"
    /\ IF artifact = Absent
         THEN SetWorker(w, Finish(workers[w], Err(MsgNotFound)))
         ELSE SetWorker(w, [workers[w] EXCEPT !.pc = "metadata"])
    /\ UNCHANGED <<state, lock, uiPc, uiVars, configVars, envVars, queue,
                   sinkVars, countVars>>

TooSmallInclusive(file_size) == file_size <= MinFileSize

TooLargeIgnored(file_size) == FALSE

\* the size checks (main.rs 152, 155)
TooSmall(file_size) == file_size < MinFileSize
TooLarge(file_size) == file_size > MaxFileSize

\* std::fs::metadata and the size checks (main.rs 147-169); the metadata read
\* fails when the file has vanished or become unreadable since exists()
WMetadata(w) ==
    /\ workers[w].pc = "metadata"
    /\ \E readable \in BOOLEAN :
          IF artifact = Absent \/ ~readable
            THEN SetWorker(w, Finish(workers[w], Err(MsgMetadata)))
            ELSE IF TooSmall(artifact)
              THEN SetWorker(w, Finish(workers[w], Err(MsgTooSmall(artifact))))
              ELSE IF TooLarge(artifact)
                THEN SetWorker(w, Finish(workers[w], Err(MsgTooLarge(artifact))))
                ELSE SetWorker(w, [workers[w] EXCEPT !.pc = "build"])
    /\ UNCHANGED <<state, lock, uiPc, uiVars, configVars, envVars, queue,
                   sinkVars, countVars>>

\* send_to_whisper: Client::builder()...build() and the loop variables
\* (main.rs 223-229)
Build(w, built) ==
    /\ workers[w].pc = "build"
    /\ IF built
         THEN SetWorker(w, [workers[w] EXCEPT !.pc = "attempt",
                                              !.attempts = MaxAttempts,
                                              !.last_error = MsgUnknown])
         ELSE SetWorker(w, Finish(workers[w], Err(MsgBuildClient)))
    /\ UNCHANGED <<state, lock, uiPc, uiVars, configVars, envVars, queue,
                   sinkVars, countVars>>

WBuildClient(w) == \E built \in BOOLEAN : Build(w, built)

\* one pass of the loop up to send(): the form is built from the file and the
\* request is issued (main.rs 231-248); attaching fails when the file is gone
\* or unreadable
Send(w, attached) ==
    /\ workers[w].pc = "attempt"
    /\ workers[w].attempts > 0
    /\ IF artifact = Absent \/ ~attached
         THEN SetWorker(w, Finish(workers[w], Err(MsgAttach)))
         ELSE SetWorker(w, [workers[w] EXCEPT !.pc = "inflight",
                                              !.requests = @ + 1])
    /\ UNCHANGED <<state, lock, uiPc, uiVars, configVars, envVars, queue,
                   sinkVars, countVars>>

WSend(w) == \E attached \in BOOLEAN : Send(w, attached)

\* what send() can come back with
Unreadable == <<"(unreadable body)">>
NetworkError == [kind |-> "network", status |-> 0, body |-> << >>]
TimeoutError == [kind |-> "timeout", status |-> 0, body |-> << >>]
Response(st, b) == [kind |-> "response", status |-> st, body |-> b]

\* every outcome of the classification, for a scripted endpoint
ScriptOutcomes ==
    {NetworkError, TimeoutError}
    \cup {Response(st, b) : st \in {x \in Statuses : is_success(x)},
                            b \in SuccessBodies \cup {Unreadable}}
    \cup {Response(st, b) : st \in {x \in Statuses : ~is_success(x)},
                            b \in ErrorBodies \cup {Unreadable}}

\* the outcomes of an endpoint that is not scripted: one of each class
Outcomes ==
    {NetworkError,
     Response(200, <<"hello world">>),
     Response(200, << >>),
     Response(401, <<"service says no">>),
     Response(429, <<"service says no">>),
     Response(500, <<"service says no">>)}

\* last_error after a failed attempt (main.rs 260-296)
ErrorOf(o) ==
    IF o.kind = "network" THEN MsgNetwork
    ELSE IF o.kind = "timeout" THEN MsgTimeout
    ELSE LET first == IF o.body = Unreadable
                        THEN MsgApiUnreadable(o.status)
                        ELSE MsgApiError(o.status, o.body)
         IN  IF is_client_error(o.status)
               THEN IF o.status = BAD_REQUEST /\ contains(first, "Invalid file format")
                      THEN MsgInvalidFormat(first)
                      ELSE IF o.status = UNAUTHORIZED
                        THEN MsgUnauthorized(first)
                        ELSE first
               ELSE first

BreaksOnAnyErrorResponse(o) == o.kind = "response" /\ ~is_success(o.status)

BreaksNever(o) == FALSE

\* the attempt ends the loop with `break` (main.rs 270-284)
Breaks(o) ==
    /\ o.kind = "response"
    /\ is_client_error(o.status)
    /\ o.status = UNAUTHORIZED

\* the attempt returns from the function (main.rs 254-257)
Returns(o) == o.kind = "response" /\ is_success(o.status)

\* response.text() of a successful response (main.rs 255-257)
TrimEnd(text) ==
    IF Len(text) > 0 /\ text[Len(text)] = "\n"
      THEN SubSeq(text, 1, Len(text) - 1)
      ELSE text

SuccessResultTrimmed(o) ==
    IF o.body = Unreadable THEN Err(MsgReadBody) ELSE Ok(TrimEnd(o.body))

SuccessResult(o) == IF o.body = Unreadable THEN Err(MsgReadBody) ELSE Ok(o.body)

\* `if attempts > 0 { sleep(2 s) }` at the end of a failed pass (main.rs 299-303)
DelayAlways(left) == TRUE

DelayTaken(left) == left > 0

\* last_error as a failed pass leaves it: every failing branch overwrites it
\* (main.rs 258-295)
LastErrorKeepsFirst(prev, o) == IF prev = MsgUnknown THEN ErrorOf(o) ELSE prev

LastErrorAfter(prev, o) == ErrorOf(o)

\* `while attempts > 0` (main.rs 231) and the return after the loop
\* (main.rs 306-309)
LoopTest(wk) ==
    IF wk.attempts > 0
      THEN [wk EXCEPT !.pc = "attempt"]
      ELSE Finish(wk, Err(MsgExhausted(wk.last_error)))

\* the rest of the pass once send() has come back (main.rs 250-304) and the
\* return after the loop (main.rs 306-309)
Respond(w, o) ==
    /\ workers[w].pc = "inflight"
    /\ LET wk == workers[w]
           left == wk.attempts - 1
           failed == [wk EXCEPT !.last_error = LastErrorAfter(wk.last_error, o)]
       IN  IF Returns(o)
             THEN SetWorker(w, Finish(wk, SuccessResult(o)))
             ELSE IF Breaks(o)
               THEN SetWorker(w, Finish(failed, Err(MsgExhausted(failed.last_error))))
               ELSE IF DelayTaken(left)
                 THEN SetWorker(w, [failed EXCEPT !.attempts = left,
                                                  !.sleeps = @ + 1,
                                                  !.pc = "sleep"])
                 ELSE SetWorker(w, LoopTest([failed EXCEPT !.attempts = left]))
    /\ UNCHANGED <<state, lock, uiPc, uiVars, configVars, envVars, queue,
                   sinkVars, countVars>>

WRespond(w) == \E o \in Outcomes : Respond(w, o)

\* thread::sleep(2 s) is over (main.rs 300-303)
WSleepDone(w) ==
    /\ workers[w].pc = "sleep"
    /\ SetWorker(w, LoopTest(workers[w]))
    /\ UNCHANGED <<state, lock, uiPc, uiVars, configVars, envVars, queue,
                   sinkVars, countVars>>

AfterRemoveOnSuccessOnly(res, size) == IF res.ok THEN Absent ELSE size

\* the path after the cleanup, reached with processing_result = res
\* (main.rs 172-173)
AfterRemove(res, size) == Absent

\* remove_file: the path is unlinked, a process writing to the file keeps it
\* open without a name (main.rs 172-173)
WCleanup(w) ==
    /\ workers[w].pc = "cleanup"
    /\ artifact' = AfterRemove(workers[w].result, artifact)
    /\ procs' = IF artifact' = Absent
                  THEN [procs EXCEPT !.open = 0, !.orphan = @ + procs.open]
                  ELSE procs
    /\ SetWorker(w, [workers[w] EXCEPT !.pc = "post", !.removed = TRUE])
    /\ UNCHANGED <<state, lock, uiPc, uiVars, configVars, queue, sinkVars,
                   countVars>>

PostedNothing(wk) == << >>

PostedTwice(wk) == <<wk.result, wk.result>>

\* the closures one worker posts (main.rs 176-208)
Posted(wk) == <<wk.result>>

\* the state as the thread leaves it: the write `*state_guard = State::Stopped`
\* is inside the closure it hands to the event loop (main.rs 176, 200-204)
StateWrittenByWorker(current) == "Stopped"

StateAfterPost(current) == current

\* slint::invoke_from_event_loop and the end of the thread (main.rs 176-209)
WPost(w) ==
    /\ workers[w].pc = "post"
    /\ queue' = queue \o Posted(workers[w])
    /\ SetWorker(w, NoWorker)
    /\ state' = StateAfterPost(state)
    /\ UNCHANGED <<lock, uiPc, uiVars, configVars, envVars, sinkVars,
                   countVars>>

WorkerStep(w) ==
    \/ WCheckExists(w)
    \/ WMetadata(w)
    \/ WBuildClient(w)
    \/ WSend(w)
    \/ WRespond(w)
    \/ WSleepDone(w)
    \/ WCleanup(w)
    \/ WPost(w)


\* ----------------------------------- interactive thread: posted callback
\* the state the callback writes (main.rs 204)
CallbackStateLeftForLater == "Processing"

CallbackState == "Stopped"

\* final_text: the transcript or the error message (main.rs 186, 191)
FinalTextOfSuccessOnly(r) == IF r.ok THEN r.text ELSE << >>

FinalText(r) == r.text

\* the closure given to invoke_from_event_loop, run by the event loop
\* (main.rs 176-207)
CallbackRun ==
    /\ uiPc = "idle"
    /\ queue # << >>
    /\ lock = "free"
    /\ LET r == Head(queue)
       IN  /\ IF r.ok
                THEN /\ clipboard' = r.text
                     /\ copies' = copies + 1
                     /\ status_text' = <<"Idle">>
                ELSE /\ UNCHANGED <<clipboard, copies>>
                     /\ status_text' = <<"Error">>
           /\ transcript_text' = FinalText(r)
    /\ processing' = FALSE
    /\ state' = CallbackState
    /\ finished' = finished + 1
    /\ queue' = Tail(queue)
    /\ UNCHANGED <<lock, uiPc, configVars, envVars, workers, refined, started,
                   leaked>>

\* ------------------------------------------- interactive thread: refine
\* what 'ask' writes to stdout
RefinedOutputs == { <<"refined text">> }

\* the refine press goes on to the transcript (main.rs 428-438)
RefineAllowedInAnyState(current_state) == TRUE

RefineAllowed(current_state) == current_state = "Stopped"

\* the transcript is one to refine (main.rs 443)
Refinable(transcript) ==
    ~(transcript = << >> \/ starts_with(transcript, "Error:"))

\* on_refine_pressed closure (main.rs 426-491)
RefinePressed ==
    /\ uiPc = "idle"
    /\ show_refine_button
    /\ lock = "free"
    /\ IF ~RefineAllowed(state)
         THEN UNCHANGED <<uiVars, sinkVars>>
         ELSE IF ~Refinable(transcript_text)
           THEN /\ status_text' = <<"Nothing to refine">>
                /\ UNCHANGED <<transcript_text, processing, sinkVars>>
           ELSE /\ refined' = TRUE
                /\ processing' = FALSE
                /\ \E outcome \in {"ok", "failed", "exec_err"} :
                      CASE outcome = "ok" ->
                              /\ copies < MaxCopies
                              /\ \E out \in RefinedOutputs :
                                    /\ clipboard' = out
                                    /\ transcript_text' = out
                              /\ copies' = copies + 1
                              /\ status_text' = <<"Idle">>
                        [] outcome = "failed" ->
                              /\ status_text' = <<"Refine failed: ", "stderr line">>
                              /\ UNCHANGED <<transcript_text, clipboard, copies>>
                        [] outcome = "exec_err" ->
                              /\ status_text' = <<"Failed to run refine: ", "exec error">>
                              /\ UNCHANGED <<transcript_text, clipboard, copies>>
    /\ UNCHANGED <<state, lock, uiPc, configVars, envVars, threadVars,
                   countVars>>

\* ---------------------------------------------------------- specification
Capture == CaptureOpens \/ CaptureWrites \/ CaptureExits

RecordHandler ==
    \/ RecordPressedNoKey
    \/ RecordPressed
    \/ StartRecording
    \/ SpawnCapture
    \/ StopCapture
    \/ BeginProcessing
    \/ SpawnWorker
    \/ IgnorePress

Worker == \E w \in Slots : WorkerStep(w)

Next ==
    \/ RecordHandler
    \/ RefinePressed
    \/ CallbackRun
    \/ Worker
    \/ Capture

Spec == Init /\ [][Next]_vars

\* the interactive thread goes on with the handler it is in
HandlerStep ==
    \/ StartRecording
    \/ SpawnCapture
    \/ StopCapture
    \/ BeginProcessing
    \/ SpawnWorker
    \/ IgnorePress

\* Scheduling: a worker thread that can take a step takes one; the event loop
\* finishes the handler it runs; a posted closure is run although presses can
\* be handled before it, the event loop being a queue.
FairSpec ==
    /\ Spec
    /\ WF_vars(Worker)
    /\ WF_vars(HandlerStep)
    /\ SF_vars(CallbackRun)

\* ------------------------------------- send_to_whisper against a script
\* the form could not be built from the file (main.rs 238-240)
AttachError == [kind |-> "attach", status |-> 0, body |-> << >>]

Scripts == [built : BOOLEAN,
            outcomes : [1..MaxAttempts -> ScriptOutcomes \cup {AttachError}]]

\* the pass of the loop the worker is in: 1 for the first (main.rs 228, 299)
AttemptNo(wk) == MaxAttempts - wk.attempts + 1

WBuildScripted(w) == Build(w, script.built)

WSendScripted(w) ==
    /\ workers[w].pc = "attempt"
    /\ Send(w, script.outcomes[AttemptNo(workers[w])].kind # "attach")

WRespondScripted(w) ==
    /\ workers[w].pc = "inflight"
    /\ Respond(w, script.outcomes[AttemptNo(workers[w])])

\* the worker of one cycle at its call of send_to_whisper (main.rs 162): the
\* validation has passed, the state is Processing, the endpoint is scripted
ClientInit ==
    /\ state = "Processing"
    /\ lock = "free"
    /\ uiPc = "idle"
    /\ api_key_empty = FALSE
    /\ status_text = <<"Processing...">>
    /\ transcript_text = << >>
    /\ processing = TRUE
    /\ show_refine_button = TRUE
    /\ procs = [new |-> 0, open |-> 0, orphan |-> 0]
    /\ artifact \in {s \in Sizes : ~TooSmall(s) /\ ~TooLarge(s)}
    /\ workers = [w \in Slots |-> IF w = 1 THEN [NoWorker EXCEPT !.pc = "build"]
                                            ELSE NoWorker]
    /\ queue = << >>
    /\ clipboard = NoText
    /\ copies = 0
    /\ refined = FALSE
    /\ started = 1
    /\ finished = 0
    /\ leaked = FALSE
    /\ script \in Scripts

ClientNext ==
    \E w \in Slots :
        \/ WBuildScripted(w)
        \/ WSendScripted(w)
        \/ WRespondScripted(w)
        \/ WSleepDone(w)

ClientSpec == ClientInit /\ [][ClientNext]_vars

\* the worker thread keeps running until send_to_whisper returns
ClientFairSpec == ClientSpec /\ WF_vars(ClientNext)

\* the same worker followed to the end of its cycle: the artifact is removed,
\* the callback is posted and the event loop runs it (main.rs 162-208)
CycleNext ==
    \/ ClientNext
    \/ \E w \in Slots : WCleanup(w) \/ WPost(w)
    \/ CallbackRun

CycleSpec == ClientInit /\ [][CycleNext]_vars

TypeOK ==
    /\ state \in {"Stopped", "Recording", "Processing"}
    /\ lock \in {"free", "ui"}
    /\ processing \in BOOLEAN
    /\ leaked \in BOOLEAN
    /\ artifact \in Sizes \cup {Absent}
    /\ NumProcs <= MaxProcs
    /\ started <= MaxCycles


\* ------------------------------------------------------------------ claims
\* workers started whose completion callback has not run yet
Outstanding == NumWorkers + Len(queue)

\* C1: a record press handled while the state is Processing changes nothing:
\* the state stays Processing, no worker is started, no capture process is
\* started or stopped, and the window's texts stay as they are.
C1_PressWhileProcessing ==
    [][(state = "Processing" /\ uiPc \in {"idle", "match"} /\ uiPc' # uiPc)
          => /\ state' = "Processing"
             /\ uiPc' \in {"idle", "match"}
             /\ UNCHANGED <<workers, queue, procs, artifact, started, finished,
                            status_text, transcript_text, processing,
                            clipboard, copies>>]_vars

C1_Witness ==
    /\ state = "Processing"
    /\ uiPc = "match"
    /\ lock = "ui"
    /\ \E w \in Slots : workers[w].pc = "inflight"

\* C2: at most one worker is outstanding at any time; a worker is started
\* only by the Recording arm, after it has set Processing; and no recording
\* starts while a worker is outstanding.
C2_OneWorker ==
    [][/\ Outstanding' <= 1
       /\ (Outstanding' = 1 => state' = "Processing")
       /\ (NumWorkers' > NumWorkers
             => uiPc = "spawn_thread" /\ state = "Processing" /\ Outstanding = 0)
       /\ (state # "Recording" /\ state' = "Recording" => Outstanding = 0)]_vars

C2_Witness ==
    /\ Len(queue) = 1
    /\ NumWorkers = 0
    /\ state = "Processing"
    /\ started = 2

\* C3: under fair scheduling of the worker and of the event loop, every
\* cycle that reaches Processing returns to Stopped.
C3_ProcessingEnds == (state = "Processing") ~> (state = "Stopped")

C3_Witness ==
    /\ state = "Stopped"
    /\ finished = 1
    /\ status_text = <<"Error">>
    /\ transcript_text = MsgExhausted(MsgNetwork)

\* C4: the state leaves Processing only in the step that runs a completion
\* callback, and to Stopped; a callback runs only in Processing; a cycle that
\* is over has had exactly one callback run.
C4_OnlyCallbackLeavesProcessing ==
    [][/\ (state = "Processing" /\ state' # "Processing"
             => /\ state' = "Stopped"
                /\ uiPc = "idle" /\ uiPc' = "idle"
                /\ queue # << >> /\ queue' = Tail(queue)
                /\ finished' = finished + 1)
       /\ (finished' # finished
             => state = "Processing" /\ state' = "Stopped"
                /\ finished' = finished + 1)
       /\ (state' # "Processing" => finished' = started')]_vars

C4_Witness ==
    /\ state = "Stopped"
    /\ finished = 2
    /\ started = 2

\* C5: a record press in Stopped whose capture process is not started ends
\* in Stopped with an error status, and the mutex is held from the write of
\* Recording to the end of the press.
C5_FailedStartReverts ==
    [][/\ (uiPc = "spawn_capture" /\ uiPc' # uiPc /\ NumProcs' = NumProcs
             => /\ state' = "Stopped"
                /\ status_text' \in {<<"Error:", " arecord missing">>,
                                     <<"Error starting record: ", "spawn error">>}
                /\ uiPc' = "idle")
       /\ (uiPc' = "spawn_capture" => lock' = "ui" /\ state' = "Recording")
       /\ (uiPc = "spawn_capture" /\ uiPc' = "idle" /\ state' = "Recording"
             => NumProcs' = NumProcs + 1)]_vars

C5_Witness ==
    /\ state = "Stopped"
    /\ uiPc = "idle"
    /\ lock = "free"
    /\ status_text = <<"Error starting record: ", "spawn error">>


\* C6 as stated: the worker deletes the artifact on every exit path before
\* it posts the callback, so that the artifact never exists once the state
\* has returned to Stopped.
C6_Original ==
    /\ \A w \in Slots : workers[w].pc = "post" => workers[w].removed
    /\ (state = "Stopped" /\ finished > 0 => artifact = Absent)

\* C6, amended: on every exit path the worker deletes the artifact before it
\* posts the callback, and the path does not exist right after the deletion;
\* the path comes to exist again only when a capture process that has been
\* spawned and not stopped creates its file.
C6_CleanupBeforePost ==
    [][/\ \A w \in Slots :
             /\ (workers[w].pc = "cleanup" /\ workers'[w].pc # "cleanup"
                   => /\ artifact' = Absent
                      /\ workers'[w].pc = "post"
                      /\ workers'[w].removed
                      /\ workers'[w].result = workers[w].result)
             /\ (workers[w].pc # "post" /\ workers'[w].pc = "post"
                   => workers[w].pc = "cleanup")
       /\ (Len(queue') > Len(queue)
             => \E w \in Slots : /\ workers[w].pc = "post"
                                 /\ workers[w].removed
                                 /\ queue' = Append(queue, workers[w].result))
       /\ (artifact = Absent /\ artifact' # Absent
             => procs.new > 0 /\ procs'.new = procs.new - 1)]_vars

C6_Witness ==
    \E w \in Slots :
        /\ workers[w].pc = "post"
        /\ workers[w].removed
        /\ workers[w].result = Err(MsgTooSmall(4095))
        /\ artifact = Absent

\* the results of a failed validation
ValidationFailure(res) ==
    /\ ~res.ok
    /\ res.text \in {MsgNotFound, MsgMetadata}
                      \cup {MsgTooSmall(sz) : sz \in Sizes}
                      \cup {MsgTooLarge(sz) : sz \in Sizes}

\* C7: a worker whose artifact is missing, unreadable, below 4096 bytes or
\* above 25 MiB ends its validation with a failure result, and a worker with
\* such a result has issued no request and never enters send_to_whisper.
C7_NoRequestAfterFailedValidation ==
    [][\A w \in Slots :
          /\ ((/\ workers[w].pc \in {"exists", "metadata"}
               /\ workers'[w] # workers[w]
               /\ artifact = Absent)
                => ValidationFailure(workers'[w].result))
          /\ ((/\ workers[w].pc = "metadata"
               /\ workers'[w] # workers[w]
               /\ (artifact < 4096 \/ artifact > 26214400))
                => ValidationFailure(workers'[w].result))
          /\ (ValidationFailure(workers'[w].result)
                => /\ workers'[w].requests = 0
                   /\ workers'[w].pc \in {"cleanup", "post"})]_vars

C7_Witness ==
    \E w \in Slots :
        /\ workers[w].pc = "post"
        /\ workers[w].result = Err(MsgTooLarge(26214401))
        /\ workers[w].requests = 0

\* C8: the worker that has read the size s of the artifact enters
\* send_to_whisper exactly if 4096 <= s <= 26214400; below it the result is
\* "too small", above it "too large".
C8_SizeThresholds ==
    [][\A w \in Slots :
          (/\ workers[w].pc = "metadata"
           /\ workers'[w] # workers[w]
           /\ workers'[w].result # Err(MsgMetadata))
             => /\ (workers'[w].pc = "build"
                      <=> (4096 <= artifact /\ artifact <= 26214400))
                /\ (workers'[w].result = Err(MsgTooSmall(artifact))
                      <=> artifact < 4096)
                /\ (workers'[w].result = Err(MsgTooLarge(artifact))
                      <=> artifact > 26214400)]_vars

C8_Witness ==
    \E w \in Slots :
        /\ workers[w].pc = "build"
        /\ artifact = 26214400

\* the attempts of the script up to the k-th have been made
Retryable(o) ==
    \/ o.kind \in {"network", "timeout"}
    \/ o.kind = "response" /\ o.status >= 500 /\ o.status <= 599

SuccessWithBody(o) ==
    o.kind = "response" /\ o.status >= 200 /\ o.status <= 299 /\ o.body # Unreadable

\* C9: when the first k-1 attempts fail with a network-level failure or a 5xx
\* response and attempt k (k <= 3) succeeds, send_to_whisper returns the body
\* of that response and has issued exactly k requests.
C9_SuccessAfterRetries ==
    \A w \in Slots : \A k \in 1..3 :
        (/\ workers[w].pc = "cleanup"
         /\ script.built
         /\ \A j \in 1..(k - 1) : Retryable(script.outcomes[j])
         /\ SuccessWithBody(script.outcomes[k]))
           => /\ workers[w].result = Ok(script.outcomes[k].body)
              /\ workers[w].requests = k

C9_Witness ==
    \E w \in Slots :
        /\ workers[w].pc = "cleanup"
        /\ script.outcomes = <<Response(500, <<"service says no">>),
                               Response(500, <<"service says no">>),
                               Response(200, <<"hello world">>)>>
        /\ workers[w].result = Ok(<<"hello world">>)
        /\ workers[w].requests = 3

\* an attempt after which the loop goes on in the code as it is
FailsWithout401(o) ==
    \/ o.kind \in {"network", "timeout"}
    \/ o.kind = "response" /\ ~(o.status >= 200 /\ o.status <= 299) /\ o.status # 401

\* C10: when attempt k receives a 401, no request after the k-th is issued,
\* no delay after it is taken, and the function returns a failure; a 401 on
\* the first attempt means one request and no delay.
C10_UnauthorizedStops ==
    \A w \in Slots : \A k \in 1..3 :
        (/\ script.built
         /\ \A j \in 1..(k - 1) : FailsWithout401(script.outcomes[j])
         /\ script.outcomes[k].kind = "response"
         /\ script.outcomes[k].status = 401)
           => /\ workers[w].requests <= k
              /\ workers[w].sleeps <= k - 1
              /\ (workers[w].pc = "cleanup"
                    => /\ workers[w].requests = k
                       /\ workers[w].sleeps = k - 1
                       /\ ~workers[w].result.ok
                       /\ contains(workers[w].result.text,
                            "API Error: Unauthorized (401). Check your API key. ("))

C10_Witness ==
    \E w \in Slots :
        /\ workers[w].pc = "cleanup"
        /\ script.outcomes[1] = Response(401, <<"service says no">>)
        /\ workers[w].requests = 1
        /\ workers[w].sleeps = 0
        /\ ~workers[w].result.ok

\* a response with a client-error status (4xx)
ClientErrorResponse(o) ==
    o.kind = "response" /\ o.status >= 400 /\ o.status <= 499

\* C11: send_to_whisper does not retry after a client-error response: once
\* attempt k has received a 4xx status, no request after the k-th is issued
\* and the function returns a failure.
C11_NoRetryAfterClientError ==
    \A w \in Slots : \A k \in 1..3 :
        (/\ script.built
         /\ \A j \in 1..(k - 1) : Retryable(script.outcomes[j])
         /\ ClientErrorResponse(script.outcomes[k]))
           => /\ workers[w].requests <= k
              /\ (workers[w].pc = "cleanup" => ~workers[w].result.ok)

\* what C12 says of one worker at every moment of its call
AttemptBudget(wk) ==
    /\ wk.requests <= 3
    /\ wk.sleeps <= 2
    /\ (wk.pc \in {"attempt", "inflight", "sleep"} => wk.attempts >= 1)
    /\ (wk.pc = "sleep" => wk.sleeps = wk.requests /\ wk.requests < 3)
    /\ (wk.pc = "cleanup" /\ wk.requests >= 1
          => wk.sleeps = (IF wk.result = Err(MsgAttach) THEN wk.requests
                                                       ELSE wk.requests - 1))
    /\ (wk.pc = "cleanup" /\ wk.requests = 0 => wk.sleeps = 0)

\* C12: for every sequence of attempt outcomes send_to_whisper returns, and it
\* has issued at most 3 requests; exactly 3 when every attempt fails with a
\* network-level failure or a 5xx response; the 2 s delay is taken only
\* between two attempts (as many delays as requests so far, another pass
\* following), never after the last one (one delay less than requests at the
\* return).
C12_BoundedAttempts ==
    /\ [](\A w \in Slots :
            /\ AttemptBudget(workers[w])
            /\ (/\ workers[w].pc = "cleanup"
                /\ script.built
                /\ \A j \in 1..3 : Retryable(script.outcomes[j]))
                  => workers[w].requests = 3 /\ workers[w].sleeps = 2)
    /\ <>(\E w \in Slots : workers[w].pc = "cleanup")

C12_Witness ==
    \E w \in Slots :
        /\ workers[w].pc = "cleanup"
        /\ script.outcomes = <<NetworkError, Response(500, <<"service says no">>),
                               TimeoutError>>
        /\ workers[w].requests = 3
        /\ workers[w].sleeps = 2

\* C13: when send_to_whisper has used up all 3 attempts, the error it returns
\* is the error of the third attempt, not of an earlier one, behind the prefix
\* that says the retries were exhausted.
C13_LastErrorReturned ==
    \A w \in Slots :
        (/\ workers[w].pc = "cleanup"
         /\ script.built
         /\ \A j \in 1..3 : FailsWithout401(script.outcomes[j]))
           => /\ workers[w].requests = 3
              /\ workers[w].result =
                   Err(<<"Failed after multiple attempts. Last error: ">>
                         \o ErrorOf(script.outcomes[3]))

C13_Witness ==
    \E w \in Slots :
        /\ workers[w].pc = "cleanup"
        /\ script.outcomes = <<NetworkError, Response(500, <<"service says no">>),
                               Response(429, <<"service says no">>)>>
        /\ workers[w].result =
             Err(<<"Failed after multiple attempts. Last error: ",
                   "API error ", "429", ": ", "service says no">>)

\* C14: in a cycle whose transcription succeeds (attempt k answers 2xx with a
\* readable body after k-1 failed attempts) the text handed to the clipboard
\* sink and the transcript shown are exactly that body, the state returns to
\* Stopped, and the sink is handed the text exactly once in the cycle: never
\* before the callback, once by it.
C14_BodyReachesClipboard ==
    \A k \in 1..3 :
        (/\ script.built
         /\ \A j \in 1..(k - 1) : FailsWithout401(script.outcomes[j])
         /\ SuccessWithBody(script.outcomes[k]))
           => /\ (finished = 0 => copies = 0 /\ state = "Processing")
              /\ (finished >= 1
                    => /\ finished = 1
                       /\ copies = 1
                       /\ clipboard = script.outcomes[k].body
                       /\ transcript_text = script.outcomes[k].body
                       /\ status_text = <<"Idle">>
                       /\ processing = FALSE
                       /\ state = "Stopped")

C14_Witness ==
    /\ finished = 1
    /\ script.built
    /\ script.outcomes[1] = NetworkError
    /\ script.outcomes[2] = Response(200, <<"hello world", "\n">>)
    /\ clipboard = <<"hello world", "\n">>
    /\ transcript_text = <<"hello world", "\n">>
    /\ copies = 1
    /\ state = "Stopped"

\* C15: with an empty or missing API key, whatever presses are made, the state
\* stays Stopped, no capture process and no worker is ever started, nothing is
\* posted or recorded, and the only thing a toggle press does is set the
\* status to its error message (the other statuses are the one of startup and
\* the one a refine press sets on the empty transcript).
C15_NoKeyNoRecording ==
    api_key_empty
      => /\ state = "Stopped"
         /\ uiPc = "idle"
         /\ lock = "free"
         /\ NumProcs = 0
         /\ NumWorkers = 0
         /\ started = 0
         /\ queue = << >>
         /\ artifact = Absent
         /\ processing = FALSE
         /\ transcript_text = << >>
         /\ copies = 0
         /\ status_text \in {<<"Error:", " API key missing or invalid">>,
                             <<"Error:", " API key missing. Cannot record.">>,
                             <<"Nothing to refine">>}

C15_Witness ==
    /\ api_key_empty
    /\ state = "Stopped"
    /\ status_text = <<"Error:", " API key missing. Cannot record.">>

\* the statuses that report an error of a cycle
CaptureStartStatuses ==
    {<<"Error:", " arecord missing">>, <<"Error starting record: ", "spawn error">>}

\* the text area holds a message: some text that is no transcript
HoldsMessage(text) == text # << >> /\ text \notin SuccessBodies \cup RefinedOutputs

\* C16 as stated: whenever the status reports an error of a cycle (a failed
\* capture start or a failed worker) the text area holds the longer message.
C16_Original ==
    status_text \in CaptureStartStatuses \cup {<<"Error">>}
      => HoldsMessage(transcript_text)

\* C16, amended: every failure the worker posts (validation, transport,
\* authentication, service side) ends with the status "Error" and its message,
\* never empty, in the text area, both set by the same callback, and the
\* message is still there whenever the status is "Error"; a failed capture
\* start ends with its error status only and leaves the text area as it was.
C16_ErrorsSurface ==
    /\ [](status_text = <<"Error">> => HoldsMessage(transcript_text))
    /\ [][/\ (finished' = finished + 1 /\ ~Head(queue).ok
                => /\ status_text' = <<"Error">>
                   /\ transcript_text' = Head(queue).text
                   /\ HoldsMessage(Head(queue).text))
          /\ (uiPc = "spawn_capture" /\ state' = "Stopped"
                => /\ status_text' \in CaptureStartStatuses
                   /\ transcript_text' = transcript_text)]_vars

C16_Witness ==
    /\ status_text = <<"Error">>
    /\ state = "Stopped"
    /\ transcript_text = MsgExhausted(MsgUnauthorized(
                             MsgApiError(401, <<"service says no">>)))

\* a worker's request is in flight or its inter-attempt delay is running
Busy(wk) == wk.pc \in {"inflight", "sleep"}

\* C17: the mutex is free when the worker is about to be started, and nobody
\* holds it across a network request or an inter-attempt delay: while a worker
\* is in one, the mutex is free whenever no press handler is running, so a
\* toggle press and a refine press can take it at once, and its only holder is
\* the interactive thread inside a press handler (the Processing arm), which
\* releases it without waiting for the worker.
C17_LockNotHeldAcrossRequest ==
    /\ (uiPc = "spawn_thread" => lock = "free")
    /\ \A w \in Slots :
          Busy(workers[w])
            => /\ state = "Processing"
               /\ (uiPc = "idle"
                     => /\ lock = "free"
                        /\ ENABLED RecordPressed
                        /\ (show_refine_button => ENABLED RefinePressed))
               /\ (lock # "free"
                     => /\ lock = "ui"
                        /\ uiPc = "match"
                        /\ ENABLED IgnorePress)

C17_Witness ==
    \E w \in Slots :
        /\ workers[w].pc = "sleep"
        /\ lock = "ui"
        /\ uiPc = "match"
        /\ state = "Processing"

\* C18: every write to the recording state is made by the interactive thread
\* (a step of a press handler, or the callback run by the event loop with no
\* worker step in it); a step of the worker thread, from its first check to
\* its post, changes neither the state nor the mutex.
C18_StateWrittenOnInteractiveThread ==
    [][/\ ((\E w \in Slots : workers[w].pc # "none" /\ workers'[w] # workers[w])
             => state' = state /\ lock' = lock)
       /\ (state' # state
             => \/ uiPc # "idle" /\ uiPc' # uiPc /\ queue' = queue
                \/ /\ uiPc = "idle" /\ uiPc' = "idle"
                   /\ queue # << >> /\ queue' = Tail(queue)
                   /\ workers' = workers)
       /\ (lock' # lock => uiPc' # uiPc /\ workers' = workers)]_vars

C18_Witness ==
    /\ state = "Processing"
    /\ NumWorkers = 0
    /\ Len(queue) = 1
    /\ lock = "free"

\* C19: each worker posts exactly one callback, as its last step, once its
\* result is there (validation and attempts over) and the artifact has been
\* removed, so every cycle started is a worker running, a callback waiting or
\* a callback run; the callback writes transcript, status, spinner and state
\* in one step of the interactive thread while no press handler is running,
\* so at every moment the spinner is on exactly when the state is Processing
\* and the status of a Processing state is "Processing...".
C19_OneCallbackOneStep ==
    /\ [](/\ started = NumWorkers + Len(queue) + finished
          /\ processing = (state = "Processing")
          /\ (state = "Processing" => status_text = <<"Processing...">>))
    /\ [][/\ \A w \in Slots :
                workers[w].pc # "none" /\ workers'[w].pc = "none"
                  => /\ workers[w].pc = "post"
                     /\ workers[w].removed
                     /\ workers[w].result # NoResult
                     /\ queue' = Append(queue, workers[w].result)
          /\ (Len(queue') > Len(queue)
                => \E w \in Slots :
                      workers[w].pc = "post" /\ workers'[w].pc = "none")
          /\ (Len(queue') < Len(queue)
                => /\ uiPc = "idle" /\ uiPc' = "idle"
                   /\ state = "Processing" /\ state' = "Stopped"
                   /\ processing' = FALSE
                   /\ transcript_text' = Head(queue).text
                   /\ status_text' = (IF Head(queue).ok THEN <<"Idle">>
                                                          ELSE <<"Error">>)
                   /\ finished' = finished + 1)]_vars

C19_Witness ==
    /\ started = 2
    /\ finished = 2
    /\ NumWorkers = 0
    /\ queue = << >>
    /\ state = "Stopped"
    /\ status_text = <<"Error">>
    /\ processing = FALSE

\* a step that changes the window or the clipboard and is neither a step of
\* the record handler nor the callback: the work of a refine press (or of a
\* toggle press without API key)
OutsideCycleStep ==
    /\ uiPc' = uiPc
    /\ finished' = finished
    /\ <<uiVars, sinkVars>>' # <<uiVars, sinkVars>>

\* C20: a refine press never writes the recording state or keeps the mutex,
\* and it runs the refinement tool only when the state it read is Stopped:
\* whatever a refine press changes (status, transcript, spinner, clipboard) it
\* changes in the Stopped state, so a refine press while Recording or
\* Processing changes nothing at all.
C20_RefineOnlyWhenStopped ==
    [][/\ (OutsideCycleStep
             => state = "Stopped" /\ state' = state /\ lock' = lock)
       /\ (refined' /\ ~refined
             => /\ state = "Stopped" /\ state' = state
                /\ Refinable(transcript_text))]_vars

C20_Witness ==
    /\ refined
    /\ state = "Stopped"
    /\ finished = 1
    /\ clipboard = <<"refined text">>
    /\ transcript_text = <<"refined text">>
    /\ status_text = <<"Idle">>

\* C21 as stated: at most one capture process is running at any time, and none
\* while the state is Stopped after a completed cycle, whatever the stop did.
C21_Original ==
    /\ NumProcs <= 1
    /\ (state = "Stopped" /\ finished >= 1 => NumProcs = 0)

\* C21, amended: as long as every stop so far has terminated the capture
\* process it found (pkill present and succeeding, or no process left to
\* stop), at most one capture process is running, and none is running outside
\* Recording, in particular none while the state is Stopped after a cycle.
C21_OneCaptureWhenStopsSucceed ==
    ~leaked
      => /\ NumProcs <= 1
         /\ (state # "Recording" => NumProcs = 0)

C21_Witness ==
    /\ ~leaked
    /\ finished = 1
    /\ state = "Recording"
    /\ uiPc = "idle"
    /\ NumProcs = 1

\* C22: the refinement tool is never run on a failure message: while the
\* status is the "Error" of a cycle that failed (its message is in the
\* transcript area), a refine press only answers "Nothing to refine": it does
\* not run the tool, copies nothing and leaves the transcript as it is.
C22_NoRefineOfFailure ==
    [][OutsideCycleStep /\ status_text = <<"Error">>
         => /\ status_text' = <<"Nothing to refine">>
            /\ transcript_text' = transcript_text
            /\ UNCHANGED sinkVars]_vars

====
